---- MODULE Spec2Model ----
(***************************************************************************)
(* machine-monitor: the Machine controller (Reconcile, SetupWithManager),  *)
(* the journald streaming engine (StreamFromRemote, resetCursorFile,       *)
(* stream) and the work queue and rate limiter the controller is built on. *)
(*                                                                         *)
(* One worker goroutine of the controller is one element of Workers; the   *)
(* attempt it is running is the state indexed by that worker.  The local   *)
(* journal file and the remote cursor file are indexed by host.            *)
(* Durations are counted in units of ten seconds.                          *)
(***************************************************************************)
EXTENDS Integers, Sequences, FiniteSets, TLC

\* ---------------------------------------------------------------- bounds
NumHosts == 2
MaxWorkers == 2
JournalLen == 2
MaxFileLen == 2
MaxFailures == 3
MaxExp == 40
MaxNameLen == 3     \* longest namespace or Machine name considered

Hosts == 1..NumHosts
Workers == 1..MaxWorkers
NoItem == 0
NoCursor == 0 - 1

\* ------------------------------------------------- program constants
\* --requeue-base-delay default, time.Second*10
RequeueBaseDelay == 1
\* --requeue-max-delay default, time.Minute*2
RequeueMaxDelay == 12
\* math.MaxInt64 nanoseconds, in units of ten seconds
MaxInt64 == 922337203

VARIABLES
    maxConcurrentReconciles, \* config.MaxConcurrentReconciles, fixed at start
    fleet,        \* the hosts the cluster ever has a Machine for, fixed
    journal,      \* [Hosts -> Nat] number of entries in the host's journal, fixed
    failureBound, \* consecutive failures of one item that are followed, fixed
    machine,      \* [Hosts -> {"absent","noaddr","addr"}] the Machine object
    cancelled,    \* the manager's context is done
    shuttingDown, \* workqueue: ShutDown was called
    queue,        \* workqueue: items ready to be handed to a worker
    dirty,        \* workqueue: items that need processing
    processing,   \* workqueue: items a worker holds
    waitingFor,   \* workqueue: the item waits for the delay of an AddAfter
    failures,     \* rate limiter: consecutive failures per item
    lastDelay,    \* rate limiter: what the last When(item) returned, 0 once forgotten
    item,         \* [Workers -> Hosts \cup {NoItem}] the request a worker holds
    pc,           \* [Workers -> position of the worker in Reconcile]
    result,       \* [Workers -> "none","nil","err"] what Reconcile returned
    statNotExist, \* [Workers -> BOOLEAN] os.IsNotExist(err) of the attempt
    client,       \* [Workers -> "none","open","closed"] the *ssh.Client
    resetSession, \* [Workers -> "none","open","closed"] the session of resetCursorFile
    session,      \* [Workers -> "none","open","closed"] the follow session
    outWriter,    \* [Workers -> "none","open","closed"] the local file handle
    sigSent,      \* [Workers -> BOOLEAN] session.Signal(SIGTERM) was sent
    forced,       \* [Workers -> BOOLEAN] the session was closed without waiting
    waitErr,      \* [Workers -> BOOLEAN] the error received from errCh is not nil
    waiter,       \* [Workers -> "none","started","done"] the goroutine of stream that
                  \*   sends session.Wait() on errCh; done once its send was received
    stderrInErr,  \* [Workers -> "none","included","missing"] whether the error of a
                  \*   remote command that Reconcile returned carries its stderr
    proc,         \* [Workers -> "none","running","exited"] remote journalctl
    exitErr,      \* [Workers -> BOOLEAN] session.Wait() yields an error
    pos,          \* [Workers -> 0..JournalLen] last entry journalctl emitted
    inflight,     \* [Workers -> Nat] entries emitted, not yet written locally
    fileExists,   \* [Hosts -> BOOLEAN] the local journal file exists
    file,         \* [Hosts -> Seq(1..JournalLen)] its content, entry by entry
    cursor,       \* [Hosts -> NoCursor or 0..JournalLen] remote cursor file
    taint,        \* [Hosts -> "clean","forced","other"] history of the local file:
                  \*   clean: created after a cursor reset, every follow command on it
                  \*   so far ended by a delivered interrupt; forced: some ended by a
                  \*   forced close; other: anything else happened to it
    startLen,     \* [Workers -> Nat] entries in the file when the follow began
    dialPc,       \* [Workers -> "dial","select","done"] a caller of DialContext
    dialGo,       \* [Workers -> "none","handshake","select","done"] its goroutine
    dialConn,     \* [Workers -> "none","open","closed"] conn of d.DialContext
    dialClient,   \* [Workers -> "none","open","closed"] client of the goroutine
    dialRes,      \* [Workers -> "none","client","err","cause"] what the call returned
    namespacedName, \* [Workers -> <<namespace, name>> or <<>>] req.NamespacedName
    journalPath,  \* [Workers -> Seq of characters] localJournalFilePath, <<>> if none
    relayPc,      \* [Workers -> "bastion","tunnel","handshake","done"] a caller of
                  \*   NewClientWithBastion; its bastionClient is dialClient
    bastionConn,  \* [Workers -> "none","open","closed"] the connection tunnelled
                  \*   through the bastion
    machineClient, \* [Workers -> "none","open","closed"] the client to the machine
    relayRes      \* [Workers -> "none","client","err","cause"] what the call returned

schedVars == <<queue, dirty, processing, waitingFor, failures, lastDelay>>
workerVars == <<item, pc, result, statNotExist, resetSession, client, session,
                stderrInErr, waiter, outWriter,
                sigSent, forced, waitErr>>
procVars == <<proc, exitErr, pos, inflight, startLen>>
fsVars == <<fileExists, file, cursor, taint>>
configVars == <<maxConcurrentReconciles, fleet, journal, failureBound>>
dialVars == <<dialPc, dialGo, dialConn, dialClient, dialRes>>
nameVars == <<namespacedName, journalPath>>
relayVars == <<relayPc, bastionConn, machineClient, relayRes>>
vars == <<configVars, dialVars, nameVars, relayVars, machine, cancelled, shuttingDown,
          schedVars, workerVars, procVars, fsVars>>

HostOf(w) == item[w]

\* ------------------------------------------------------- rate limiter
\* 2^e > lim, computed by halving lim so that no intermediate value is large.
RECURSIVE Pow2Exceeds(_, _)
Pow2Exceeds(e, lim) ==
    IF lim = 0 THEN TRUE
    ELSE IF e = 0 THEN 1 > lim
    ELSE Pow2Exceeds(e - 1, lim \div 2)

\* When without the cap: the doubled delay is returned however large it is.
WhenUncapped(exp) ==
    IF Pow2Exceeds(exp, MaxInt64 \div RequeueBaseDelay)
    THEN RequeueMaxDelay
    ELSE RequeueBaseDelay * (2 ^ exp)

\* ItemExponentialFailureRateLimiter.When for an item that has failed exp times:
\*   backoff := base * 2^exp; if backoff > MaxInt64 return max;
\*   if backoff > max return max; return backoff
When(exp) ==
    IF Pow2Exceeds(exp, MaxInt64 \div RequeueBaseDelay)
    THEN RequeueMaxDelay
    ELSE LET backoff == RequeueBaseDelay * (2 ^ exp)
         IN  IF backoff > RequeueMaxDelay THEN RequeueMaxDelay ELSE backoff

\* --------------------------------------------------------- work queue
\* Add: nothing once shutting down or while the item is already dirty; an item
\* that is being processed is only marked dirty, any other is also queued.
\* Add that drops the request of an item a worker is processing.
AddDirtyDropsProcessing(q_dirty, h) ==
    IF shuttingDown \/ h \in processing THEN q_dirty ELSE q_dirty \cup {h}

AddDirty(q_dirty, h) == IF shuttingDown THEN q_dirty ELSE q_dirty \cup {h}

\* Add that queues an item even while a worker is processing it.
AddQueueWhileProcessing(q_queue, q_dirty, q_processing, h) ==
    IF shuttingDown \/ h \in q_dirty
    THEN q_queue
    ELSE q_queue \cup {h}

AddQueue(q_queue, q_dirty, q_processing, h) ==
    IF shuttingDown \/ h \in q_dirty \/ h \in q_processing
    THEN q_queue
    ELSE q_queue \cup {h}

\* Done that forgets that the item became dirty while it was processed.
DoneQueueDropsDirty(q_queue, q_dirty, h) == q_queue

\* Done: the item leaves processing and is queued again if it became dirty.
DoneQueue(q_queue, q_dirty, h) ==
    IF h \in q_dirty THEN q_queue \cup {h} ELSE q_queue

\* ------------------------------------------------------ control plane
\* A watch event for Machine h: the object becomes m and the request is added.
MachineEvent(h, m) ==
    /\ h \in fleet
    /\ machine' = [machine EXCEPT ![h] = m]
    /\ dirty' = AddDirty(dirty, h)
    /\ queue' = AddQueue(queue, dirty, processing, h)
    /\ UNCHANGED <<configVars, relayVars, nameVars, dialVars, cancelled, shuttingDown, processing,
                   waitingFor, failures, lastDelay, workerVars, procVars, fsVars>>

\* The delay of a rate-limited requeue has elapsed: the waiting loop adds the item.
DelayElapsed(h) ==
    /\ waitingFor[h]
    /\ ~shuttingDown
    /\ waitingFor' = [waitingFor EXCEPT ![h] = FALSE]
    /\ dirty' = AddDirty(dirty, h)
    /\ queue' = AddQueue(queue, dirty, processing, h)
    /\ UNCHANGED <<configVars, relayVars, nameVars, dialVars, machine, cancelled, shuttingDown,
                   processing, failures, lastDelay, workerVars, procVars, fsVars>>

\* Get by a worker goroutine beyond the MaxConcurrentReconciles started.
GetAnyWorker(w, h) ==
    /\ pc[w] = "idle"
    /\ \A v \in Workers : v < w => pc[v] # "idle"
    /\ h \in queue
    /\ failures[h] < failureBound
    /\ queue' = queue \ {h}
    /\ dirty' = dirty \ {h}
    /\ processing' = processing \cup {h}
    /\ item' = [item EXCEPT ![w] = h]
    /\ pc' = [pc EXCEPT ![w] = "reconcile"]
    /\ UNCHANGED <<configVars, waiter, relayVars, stderrInErr, nameVars, dialVars, machine, cancelled, shuttingDown,
                   waitingFor, failures, lastDelay, result, statNotExist, resetSession, client,
                   session, outWriter, sigSent, forced, waitErr, procVars, fsVars>>

\* Get that hands out nothing while some host waits for its backoff delay.
GetBlockedByBackoff(w, h) ==
    /\ w <= maxConcurrentReconciles
    /\ pc[w] = "idle"
    /\ \A v \in Workers : v < w => pc[v] # "idle"
    /\ h \in queue
    /\ failures[h] < failureBound
    /\ \A g \in Hosts : ~waitingFor[g]
    /\ queue' = queue \ {h}
    /\ dirty' = dirty \ {h}
    /\ processing' = processing \cup {h}
    /\ item' = [item EXCEPT ![w] = h]
    /\ pc' = [pc EXCEPT ![w] = "reconcile"]
    /\ UNCHANGED <<configVars, waiter, relayVars, stderrInErr, nameVars, dialVars, machine, cancelled, shuttingDown,
                   waitingFor, failures, lastDelay, result, statNotExist, resetSession, client,
                   session, outWriter, sigSent, forced, waitErr, procVars, fsVars>>

\* A free worker takes a queued item (Get) and calls Reconcile for it.  The
\* controller starts MaxConcurrentReconciles workers, all alike: of the free
\* ones the lowest-numbered stands for whichever takes the item.  One item is
\* followed no further than failureBound consecutive failures.
Get(w, h) ==
    /\ w <= maxConcurrentReconciles
    /\ pc[w] = "idle"
    /\ \A v \in Workers : v < w => pc[v] # "idle"
    /\ h \in queue
    /\ failures[h] < failureBound
    /\ queue' = queue \ {h}
    /\ dirty' = dirty \ {h}
    /\ processing' = processing \cup {h}
    /\ item' = [item EXCEPT ![w] = h]
    /\ pc' = [pc EXCEPT ![w] = "reconcile"]
    /\ UNCHANGED <<configVars, waiter, relayVars, stderrInErr, nameVars, dialVars, machine, cancelled, shuttingDown,
                   waitingFor, failures, lastDelay, result, statNotExist, resetSession, client,
                   session, outWriter, sigSent, forced, waitErr, procVars, fsVars>>

\* ------------------------------------------------------------ Reconcile
\* Reconcile returning without the deferred sshClient.Close() of lines 577-581.
ReturnNoClose(w, r) ==
    /\ pc' = [pc EXCEPT ![w] = "returned"]
    /\ result' = [result EXCEPT ![w] = r]
    /\ UNCHANGED client

\* Reconcile returns r: the deferred sshClient.Close() runs, which also ends
\* every session still open on the client.
Return(w, r) ==
    /\ pc' = [pc EXCEPT ![w] = "returned"]
    /\ result' = [result EXCEPT ![w] = r]
    /\ client' = [client EXCEPT ![w] = IF @ = "open" THEN "closed" ELSE @]

\* Reconcile without lines 535-539: the cause of the context is not looked at.
ReconcileNoCauseCheck(w) ==
    /\ pc[w] = "reconcile"
    /\ \/ /\ machine[HostOf(w)] = "absent"
          /\ Return(w, "err")
       \/ /\ machine[HostOf(w)] = "noaddr"
          /\ Return(w, "nil")
       \/ /\ machine[HostOf(w)] = "addr"
          /\ pc' = [pc EXCEPT ![w] = "dial"]
          /\ UNCHANGED <<result, client>>
    /\ UNCHANGED <<configVars, waiter, relayVars, stderrInErr, nameVars, dialVars, machine, cancelled, shuttingDown,
                   schedVars, item, statNotExist, resetSession, session, outWriter,
                   sigSent, forced, waitErr, procVars, fsVars>>

\* Reconcile without lines 561-564: a Machine without an address is dialled.
ReconcileDialsNoAddress(w) ==
    /\ pc[w] = "reconcile"
    /\ \/ /\ cancelled
          /\ Return(w, "err")
       \/ /\ ~cancelled
          /\ machine[HostOf(w)] = "absent"
          /\ Return(w, "err")
       \/ /\ ~cancelled
          /\ machine[HostOf(w)] \in {"noaddr", "addr"}
          /\ pc' = [pc EXCEPT ![w] = "dial"]
          /\ UNCHANGED <<result, client>>
    /\ UNCHANGED <<configVars, waiter, relayVars, stderrInErr, nameVars, dialVars, machine, cancelled, shuttingDown,
                   schedVars, item, statNotExist, resetSession, session, outWriter, sigSent,
                   forced, waitErr, procVars, fsVars>>

\* Lines 534-571: the cancellation check, the fetch of the Machine, the address.
Reconcile(w) ==
    /\ pc[w] = "reconcile"
    /\ \/ /\ cancelled
          /\ Return(w, "err")
       \/ /\ ~cancelled
          /\ machine[HostOf(w)] = "absent"
          /\ Return(w, "err")
       \/ /\ ~cancelled
          /\ machine[HostOf(w)] = "noaddr"
          /\ Return(w, "nil")
       \/ /\ ~cancelled
          /\ machine[HostOf(w)] = "addr"
          /\ pc' = [pc EXCEPT ![w] = "dial"]
          /\ UNCHANGED <<result, client>>
    /\ UNCHANGED <<configVars, waiter, relayVars, stderrInErr, nameVars, dialVars, machine, cancelled, shuttingDown,
                   schedVars, item, statNotExist, resetSession, session, outWriter, sigSent,
                   forced, waitErr, procVars, fsVars>>

\* Line 573: ssh.NewClient either yields a connected client or an error.
NewClient(w) ==
    /\ pc[w] = "dial"
    /\ \/ /\ pc' = [pc EXCEPT ![w] = "stat"]
          /\ client' = [client EXCEPT ![w] = "open"]
          /\ UNCHANGED result
       \/ Return(w, "err")
    /\ UNCHANGED <<configVars, waiter, relayVars, stderrInErr, nameVars, dialVars, machine, cancelled, shuttingDown,
                   schedVars, item, statNotExist, resetSession, session, outWriter, sigSent,
                   forced, waitErr, procVars, fsVars>>

\* ---------------------------------------------------------- DialContext
\* One call of DialContext per worker, all with the manager's context.
\* Lines 31-43: d.DialContext(ctx, network, addr) yields a connection, and the
\* handshake goroutine is started, or an error, which is returned.  A
\* cancellation that races with the connect may go unseen.
DialContext(w) ==
    /\ dialPc[w] = "dial"
    /\ \/ /\ dialConn' = [dialConn EXCEPT ![w] = "open"]
          /\ dialGo' = [dialGo EXCEPT ![w] = "handshake"]
          /\ dialPc' = [dialPc EXCEPT ![w] = "select"]
          /\ UNCHANGED dialRes
       \/ /\ dialPc' = [dialPc EXCEPT ![w] = "done"]
          /\ dialRes' = [dialRes EXCEPT ![w] = "err"]
          /\ UNCHANGED <<dialConn, dialGo>>
    /\ UNCHANGED <<configVars, relayVars, nameVars, dialClient, machine, cancelled, shuttingDown,
                   schedVars, workerVars, procVars, fsVars>>

\* Goroutine, lines 44-48: ssh.NewClientConn does the handshake on conn; on
\* success ssh.NewClient makes the client, on failure NewClientConn has closed
\* conn and client stays nil.
NewClientConn(w) ==
    /\ dialGo[w] = "handshake"
    /\ dialGo' = [dialGo EXCEPT ![w] = "select"]
    /\ \/ /\ dialClient' = [dialClient EXCEPT ![w] = "open"]
          /\ UNCHANGED dialConn
       \/ /\ dialConn' = [dialConn EXCEPT ![w] = "closed"]
          /\ UNCHANGED dialClient
    /\ UNCHANGED <<configVars, relayVars, nameVars, dialPc, dialRes, machine, cancelled,
                   shuttingDown, schedVars, workerVars, procVars, fsVars>>

\* The unbuffered channel ch: the goroutine's send of line 50 meets the
\* caller's receive of lines 58-59, which returns res.client, res.err.
sendResult(w) ==
    /\ dialGo[w] = "select"
    /\ dialPc[w] = "select"
    /\ dialGo' = [dialGo EXCEPT ![w] = "done"]
    /\ dialPc' = [dialPc EXCEPT ![w] = "done"]
    /\ dialRes' = [dialRes EXCEPT ![w] =
                      IF dialClient[w] = "open" THEN "client" ELSE "err"]
    /\ UNCHANGED <<configVars, relayVars, nameVars, dialConn, dialClient, machine, cancelled,
                   shuttingDown, schedVars, workerVars, procVars, fsVars>>

\* The goroutine's case <-ctx.Done() without the client.Close() of line 53.
goroutineDoneNoClose(w) ==
    /\ dialGo[w] = "select"
    /\ cancelled
    /\ dialGo' = [dialGo EXCEPT ![w] = "done"]
    /\ UNCHANGED <<configVars, relayVars, nameVars, dialPc, dialRes, dialConn, dialClient, machine,
                   cancelled, shuttingDown, schedVars, workerVars, procVars,
                   fsVars>>

\* Goroutine, lines 51-54: case <-ctx.Done(), a client that was made is closed
\* (and with it its connection).
goroutineDone(w) ==
    /\ dialGo[w] = "select"
    /\ cancelled
    /\ dialGo' = [dialGo EXCEPT ![w] = "done"]
    /\ IF dialClient[w] = "open"
       THEN /\ dialClient' = [dialClient EXCEPT ![w] = "closed"]
            /\ dialConn' = [dialConn EXCEPT ![w] = "closed"]
       ELSE UNCHANGED <<dialClient, dialConn>>
    /\ UNCHANGED <<configVars, relayVars, nameVars, dialPc, dialRes, machine, cancelled,
                   shuttingDown, schedVars, workerVars, procVars, fsVars>>

\* Caller, lines 60-61: case <-ctx.Done() returns nil, context.Cause(ctx).
callerDone(w) ==
    /\ dialPc[w] = "select"
    /\ cancelled
    /\ dialPc' = [dialPc EXCEPT ![w] = "done"]
    /\ dialRes' = [dialRes EXCEPT ![w] = "cause"]
    /\ UNCHANGED <<configVars, relayVars, nameVars, dialGo, dialConn, dialClient, machine,
                   cancelled, shuttingDown, schedVars, workerVars, procVars,
                   fsVars>>

\* ------------------------------------------------ NewClientWithBastion
\* One call of NewClientWithBastion per worker; its first step is the call of
\* DialContext for the bastion modelled above, whose client is bastionClient.
\* Lines 45-53: DialContext has returned; an error is returned wrapped.
bastionDialed(w) ==
    /\ relayPc[w] = "bastion"
    /\ dialPc[w] = "done"
    /\ IF dialRes[w] = "client"
       THEN /\ relayPc' = [relayPc EXCEPT ![w] = "tunnel"]
            /\ UNCHANGED relayRes
       ELSE /\ relayPc' = [relayPc EXCEPT ![w] = "done"]
            /\ relayRes' = [relayRes EXCEPT ![w] = dialRes[w]]
    /\ UNCHANGED <<configVars, nameVars, dialVars, bastionConn, machineClient,
                   machine, cancelled, shuttingDown, schedVars, workerVars,
                   procVars, fsVars>>

\* Lines 55-62: bastionClient.DialContext(ctx, ...) opens the connection to
\* the machine through the bastion, fails, or ends with the context's error;
\* on an error the function returns and bastionClient is not closed.
tunnelDial(w) ==
    /\ relayPc[w] = "tunnel"
    /\ \/ /\ bastionConn' = [bastionConn EXCEPT ![w] = "open"]
          /\ relayPc' = [relayPc EXCEPT ![w] = "handshake"]
          /\ UNCHANGED relayRes
       \/ /\ relayPc' = [relayPc EXCEPT ![w] = "done"]
          /\ relayRes' = [relayRes EXCEPT ![w] = "err"]
          /\ UNCHANGED bastionConn
       \/ /\ cancelled
          /\ relayPc' = [relayPc EXCEPT ![w] = "done"]
          /\ relayRes' = [relayRes EXCEPT ![w] = "cause"]
          /\ UNCHANGED bastionConn
    /\ UNCHANGED <<configVars, nameVars, dialVars, machineClient,
                   machine, cancelled, shuttingDown, schedVars, workerVars,
                   procVars, fsVars>>

\* Lines 64-73: ssh.NewClientConn(bastionConn, ...) does the handshake with
\* the machine, without the context; on success the client is returned, on
\* failure NewClientConn has closed bastionConn and the error is returned.
machineHandshake(w) ==
    /\ relayPc[w] = "handshake"
    /\ relayPc' = [relayPc EXCEPT ![w] = "done"]
    /\ \/ /\ machineClient' = [machineClient EXCEPT ![w] = "open"]
          /\ relayRes' = [relayRes EXCEPT ![w] = "client"]
          /\ UNCHANGED bastionConn
       \/ /\ bastionConn' = [bastionConn EXCEPT ![w] = "closed"]
          /\ relayRes' = [relayRes EXCEPT ![w] = "err"]
          /\ UNCHANGED machineClient
    /\ UNCHANGED <<configVars, nameVars, dialVars,
                   machine, cancelled, shuttingDown, schedVars, workerVars,
                   procVars, fsVars>>

\* The caller closes the client it was returned: the connection to the
\* machine and the tunnelled connection under it are closed; nothing refers
\* to bastionClient any more.
machineClientClose(w) ==
    /\ machineClient[w] = "open"
    /\ machineClient' = [machineClient EXCEPT ![w] = "closed"]
    /\ bastionConn' = [bastionConn EXCEPT ![w] = "closed"]
    /\ UNCHANGED <<configVars, nameVars, dialVars, relayPc, relayRes,
                   machine, cancelled, shuttingDown, schedVars, workerVars,
                   procVars, fsVars>>

\* ------------------------------------------------- local journal path
\* The names Kubernetes admits, over the characters "a" and "-": not empty,
\* at most MaxNameLen long, beginning and ending with an alphanumeric.
NameChars == {"a", "-"}
NameSeqs == UNION {[1..n -> NameChars] : n \in 1..MaxNameLen}
Names == {n \in NameSeqs : n[1] # "-" /\ n[Len(n)] # "-"}

\* Lines 587-592: path.Join(r.LocalJournalDirectory,
\* fmt.Sprintf("%s-%s.log", machine.Namespace, machine.Name)), character by
\* character; the configured directory is one element.
localJournalFilePath(namespace, name) ==
    <<"LocalJournalDirectory", "/">> \o namespace \o <<"-">> \o name \o <<".log">>

\* Reconcile for a Machine with the given namespace and name computes the
\* path of its local journal file.
ReconcilePath(w) ==
    \E namespace \in Names, name \in Names :
        /\ namespacedName' = [namespacedName EXCEPT ![w] = <<namespace, name>>]
        /\ journalPath' = [journalPath EXCEPT ![w] =
                              localJournalFilePath(namespace, name)]
        /\ UNCHANGED <<configVars, relayVars, dialVars, machine, cancelled, shuttingDown,
                       schedVars, workerVars, procVars, fsVars>>

\* ----------------------------------------------------- StreamFromRemote
\* StreamFromRemote without lines 31-41: the cursor file is never reset.
StreamFromRemoteNoReset(w) ==
    /\ pc[w] = "stat"
    /\ statNotExist' = [statNotExist EXCEPT ![w] = ~fileExists[HostOf(w)]]
    /\ pc' = [pc EXCEPT ![w] = "stream"]
    /\ UNCHANGED <<configVars, waiter, relayVars, stderrInErr, nameVars, dialVars, machine, cancelled, shuttingDown,
                   schedVars, item, result, resetSession, client, session,
                   outWriter, sigSent,
                   forced, waitErr, procVars, fsVars>>

\* StreamFromRemote that resets the cursor file whatever os.Stat reports.
StreamFromRemoteAlwaysReset(w) ==
    /\ pc[w] = "stat"
    /\ statNotExist' = [statNotExist EXCEPT ![w] = ~fileExists[HostOf(w)]]
    /\ pc' = [pc EXCEPT ![w] = "reset"]
    /\ UNCHANGED <<configVars, waiter, relayVars, stderrInErr, nameVars, dialVars, machine, cancelled, shuttingDown,
                   schedVars, item, result, resetSession, client, session,
                   outWriter, sigSent,
                   forced, waitErr, procVars, fsVars>>

\* Lines 30-41: os.Stat of the local journal file decides on the cursor reset.
\* os.IsNotExist(err) holds only when the file is absent; os.Stat may also fail
\* for another reason, whether or not the file is there, and then, as when the
\* file exists, nothing is reset.
StreamFromRemote(w) ==
    /\ pc[w] = "stat"
    /\ \E notExist \in {~fileExists[HostOf(w)], FALSE} :
          /\ statNotExist' = [statNotExist EXCEPT ![w] = notExist]
          /\ pc' = [pc EXCEPT ![w] = IF notExist THEN "reset" ELSE "stream"]
    /\ UNCHANGED <<configVars, waiter, relayVars, stderrInErr, nameVars, dialVars, machine, cancelled, shuttingDown,
                   schedVars, item, result, resetSession, client, session,
                   outWriter, sigSent,
                   forced, waitErr, procVars, fsVars>>

\* resetCursorFile whose caller ignores the error of lines 74-81 and goes on to
\* stream.
resetCursorFileNoAbort(w) ==
    /\ pc[w] = "reset"
    /\ \/ /\ Return(w, "err")
          /\ UNCHANGED <<cursor, resetSession>>
       \/ /\ resetSession' = [resetSession EXCEPT ![w] = "open"]
          /\ \E c \in {cursor[HostOf(w)], NoCursor} :
                cursor' = [cursor EXCEPT ![HostOf(w)] = c]
          /\ pc' = [pc EXCEPT ![w] = "stream"]
          /\ UNCHANGED <<result, client>>
       \/ /\ cursor' = [cursor EXCEPT ![HostOf(w)] = NoCursor]
          /\ resetSession' = [resetSession EXCEPT ![w] = "closed"]
          /\ pc' = [pc EXCEPT ![w] = "stream"]
          /\ UNCHANGED <<result, client>>
    /\ UNCHANGED <<configVars, waiter, relayVars, stderrInErr, nameVars, dialVars, machine, cancelled, shuttingDown,
                   schedVars, item, statNotExist, session, outWriter, sigSent,
                   forced, waitErr, procVars, fileExists, file, taint>>

\* resetCursorFile: NewSession, then Run("rm --force <cursor file>").
\* A failed Run may or may not have removed the file.
resetCursorFile(w) ==
    /\ pc[w] = "reset"
    /\ \/ /\ Return(w, "err")                    \* NewSession failed
          /\ UNCHANGED <<cursor, resetSession, stderrInErr>>
       \/ /\ Return(w, "err")                    \* Run failed: no session.Close()
          /\ resetSession' = [resetSession EXCEPT ![w] = "open"]
          /\ stderrInErr' = [stderrInErr EXCEPT ![w] = "included"]
          /\ \E c \in {cursor[HostOf(w)], NoCursor} :
                cursor' = [cursor EXCEPT ![HostOf(w)] = c]
       \/ /\ cursor' = [cursor EXCEPT ![HostOf(w)] = NoCursor]
          /\ resetSession' = [resetSession EXCEPT ![w] = "closed"]
          /\ pc' = [pc EXCEPT ![w] = "stream"]
          /\ UNCHANGED <<result, client, stderrInErr>>
    /\ UNCHANGED <<configVars, waiter, relayVars, nameVars, dialVars, machine, cancelled, shuttingDown,
                   schedVars, item, statNotExist, session, outWriter, sigSent,
                   forced, waitErr, procVars, fileExists, file, taint>>

\* os.OpenFile(O_CREATE|O_WRONLY|O_APPEND): an absent file is created empty, an
\* existing one is left as it is.  A file created without a cursor reset in the
\* same attempt is not known to match the cursor.
Created(w) ==
    /\ fileExists' = [fileExists EXCEPT ![HostOf(w)] = TRUE]
    /\ taint' = [taint EXCEPT ![HostOf(w)] =
                    IF fileExists[HostOf(w)] THEN @
                    ELSE IF statNotExist[w] THEN "clean" ELSE "other"]

\* stream, lines 97-130: NewSession, OpenFile, Start of the follow command.
\* journalctl starts after the entry the cursor file names, or at the first
\* entry when there is no cursor file.
stream(w) ==
    /\ pc[w] = "stream"
    /\ \/ /\ Return(w, "err")                    \* NewSession failed
          /\ UNCHANGED <<session, outWriter, stderrInErr, waiter, procVars, fsVars>>
       \/ /\ Return(w, "err")                    \* OpenFile failed
          /\ session' = [session EXCEPT ![w] = "open"]
          /\ UNCHANGED <<outWriter, stderrInErr, waiter, procVars, fsVars>>
       \/ /\ Return(w, "err")                    \* Start failed
          /\ session' = [session EXCEPT ![w] = "open"]
          /\ outWriter' = [outWriter EXCEPT ![w] = "closed"]
          /\ stderrInErr' = [stderrInErr EXCEPT ![w] = "included"]
          /\ Created(w)
          /\ UNCHANGED <<waiter, procVars, file, cursor>>
       \/ /\ pc' = [pc EXCEPT ![w] = "select"]
          /\ session' = [session EXCEPT ![w] = "open"]
          /\ outWriter' = [outWriter EXCEPT ![w] = "open"]
          /\ Created(w)
          /\ startLen' = [startLen EXCEPT ![w] = Len(file[HostOf(w)])]
          /\ proc' = [proc EXCEPT ![w] = "running"]
          /\ waiter' = [waiter EXCEPT ![w] = "started"]
          /\ pos' = [pos EXCEPT ![w] =
                       IF cursor[HostOf(w)] = NoCursor THEN 0 ELSE cursor[HostOf(w)]]
          /\ UNCHANGED <<result, client, stderrInErr, exitErr, inflight, file,
                         cursor>>
    /\ UNCHANGED <<configVars, relayVars, nameVars, dialVars, machine, cancelled, shuttingDown,
                   schedVars, item, statNotExist, resetSession, sigSent, forced, waitErr>>

\* ------------------------------------------------- the remote command
\* journalctl --follow emits the next journal entry into the session.
RemoteEmit(w) ==
    /\ proc[w] = "running"
    /\ pos[w] < journal[HostOf(w)]
    /\ pos' = [pos EXCEPT ![w] = @ + 1]
    /\ inflight' = [inflight EXCEPT ![w] = @ + 1]
    /\ UNCHANGED <<configVars, relayVars, nameVars, dialVars, machine, cancelled, shuttingDown,
                   schedVars, workerVars, proc, exitErr, startLen, fsVars>>

\* The copy to a file opened without O_APPEND: the entry is written at the
\* start of the file, over what was there.
LocalWriteNoAppend(w) ==
    /\ inflight[w] > 0
    /\ session[w] = "open"
    /\ outWriter[w] = "open"
    /\ inflight' = [inflight EXCEPT ![w] = @ - 1]
    /\ IF ~fileExists[HostOf(w)]
       THEN UNCHANGED <<file, taint>>
       ELSE /\ file' = [file EXCEPT ![HostOf(w)] =
                           <<pos[w] - inflight[w] + 1>>]
            /\ UNCHANGED taint
    /\ UNCHANGED <<configVars, relayVars, nameVars, dialVars, machine, cancelled, shuttingDown,
                   schedVars, workerVars, proc, exitErr, pos, startLen,
                   fileExists, cursor>>

\* The session copies the oldest entry in flight to outWriter (session.Stdout).
\* A file removed under the open handle no longer receives it under its path.
\* Only the first MaxFileLen entries of a file are recorded; a longer file is
\* marked as no longer matching anything.
LocalWrite(w) ==
    /\ inflight[w] > 0
    /\ session[w] = "open"
    /\ outWriter[w] = "open"
    /\ inflight' = [inflight EXCEPT ![w] = @ - 1]
    /\ IF ~fileExists[HostOf(w)]
       THEN UNCHANGED <<file, taint>>
       ELSE IF Len(file[HostOf(w)]) < MaxFileLen
       THEN /\ file' = [file EXCEPT ![HostOf(w)] =
                           Append(@, pos[w] - inflight[w] + 1)]
            /\ UNCHANGED taint
       ELSE /\ taint' = [taint EXCEPT ![HostOf(w)] = "other"]
            /\ UNCHANGED file
    /\ UNCHANGED <<configVars, relayVars, nameVars, dialVars, machine, cancelled, shuttingDown,
                   schedVars, workerVars, proc, exitErr, pos, startLen,
                   fileExists, cursor>>

\* journalctl receives the SIGTERM that was sent: it stops following, writes
\* the cursor of the last entry it emitted to the cursor file and exits.
RemoteSigterm(w) ==
    /\ proc[w] = "running"
    /\ sigSent[w]
    /\ proc' = [proc EXCEPT ![w] = "exited"]
    /\ \E e \in BOOLEAN : exitErr' = [exitErr EXCEPT ![w] = e]
    /\ cursor' = [cursor EXCEPT ![HostOf(w)] = pos[w]]
    /\ UNCHANGED <<configVars, relayVars, nameVars, dialVars, machine, cancelled, shuttingDown,
                   schedVars, workerVars, pos, inflight, startLen, fileExists,
                   file, taint>>

\* The remote command ends for a reason of its own (journalctl or sudo fails,
\* the host kills it): the cursor file may or may not have been written.
RemoteExit(w) ==
    /\ proc[w] = "running"
    /\ proc' = [proc EXCEPT ![w] = "exited"]
    /\ \E e \in BOOLEAN : exitErr' = [exitErr EXCEPT ![w] = e]
    /\ \E c \in {cursor[HostOf(w)], pos[w]} :
          cursor' = [cursor EXCEPT ![HostOf(w)] = c]
    /\ taint' = [taint EXCEPT ![HostOf(w)] = "other"]
    /\ UNCHANGED <<configVars, relayVars, nameVars, dialVars, machine, cancelled, shuttingDown,
                   schedVars, workerVars, pos, inflight, startLen, fileExists,
                   file>>

\* ---------------------------------------------- stream, lines 132-176
\* errCh can be received from: session.Wait() has returned, which it does once
\* the remote command has ended and the copy to session.Stdout is complete.
ErrChReady(w) == proc[w] = "exited" /\ inflight[w] = 0

\* session.Close(): what has not been copied yet is dropped; a remote command
\* still attached is cut off and may or may not get to write its cursor file.
CloseSession(w) ==
    /\ session' = [session EXCEPT ![w] = "closed"]
    /\ inflight' = [inflight EXCEPT ![w] = 0]
    /\ IF proc[w] = "running"
       THEN /\ proc' = [proc EXCEPT ![w] = "exited"]
            /\ exitErr' = [exitErr EXCEPT ![w] = TRUE]
            /\ \E c \in {cursor[HostOf(w)], pos[w]} :
                  cursor' = [cursor EXCEPT ![HostOf(w)] = c]
       ELSE UNCHANGED <<proc, exitErr, cursor>>

\* select, case waitErr = <-errCh (line 143).
selectErrCh(w) ==
    /\ pc[w] = "select"
    /\ ErrChReady(w)
    /\ waitErr' = [waitErr EXCEPT ![w] = exitErr[w]]
    /\ pc' = [pc EXCEPT ![w] = "finish"]
    /\ waiter' = [waiter EXCEPT ![w] = "done"]
    /\ UNCHANGED <<configVars, relayVars, stderrInErr, nameVars, dialVars, machine, cancelled, shuttingDown,
                   schedVars, item, result, statNotExist, resetSession, client, session,
                   outWriter, sigSent, forced, procVars, fsVars>>

\* The cancellation branch without the receive of line 158 after a forced
\* close: stream goes on to its final closes at once.
selectDoneNoReceive(w) ==
    /\ pc[w] = "select"
    /\ cancelled
    /\ \/ /\ sigSent' = [sigSent EXCEPT ![w] = TRUE]
          /\ pc' = [pc EXCEPT ![w] = "await"]
          /\ UNCHANGED <<forced, session, procVars, fsVars>>
       \/ /\ forced' = [forced EXCEPT ![w] = TRUE]
          /\ pc' = [pc EXCEPT ![w] = "finish"]
          /\ CloseSession(w)
          /\ taint' = [taint EXCEPT ![HostOf(w)] =
                          IF @ = "clean" THEN "forced" ELSE @]
          /\ UNCHANGED <<sigSent, pos, startLen, fileExists, file>>
    /\ UNCHANGED <<configVars, waiter, relayVars, stderrInErr, nameVars, dialVars,
                   machine, cancelled, shuttingDown,
                   schedVars, item, result, statNotExist, resetSession, client,
                   outWriter, waitErr>>

\* The cancellation branch without lines 148-156: a failed Signal is ignored
\* and the session is left open.
selectDoneNoClose(w) ==
    /\ pc[w] = "select"
    /\ cancelled
    /\ pc' = [pc EXCEPT ![w] = "await"]
    /\ \/ /\ sigSent' = [sigSent EXCEPT ![w] = TRUE]
          /\ UNCHANGED <<forced, session, procVars, fsVars>>
       \/ UNCHANGED <<sigSent, forced, session, procVars, fsVars>>
    /\ UNCHANGED <<configVars, waiter, relayVars, stderrInErr, nameVars, dialVars, machine, cancelled, shuttingDown,
                   schedVars, item, result, statNotExist, resetSession, client, outWriter,
                   waitErr>>

\* select, case <-ctx.Done() (lines 145-156): Signal(SIGTERM); if that fails,
\* the session is closed without waiting.
selectDone(w) ==
    /\ pc[w] = "select"
    /\ cancelled
    /\ pc' = [pc EXCEPT ![w] = "await"]
    /\ \/ /\ sigSent' = [sigSent EXCEPT ![w] = TRUE]
          /\ UNCHANGED <<forced, session, procVars, fsVars>>
       \/ /\ forced' = [forced EXCEPT ![w] = TRUE]
          /\ CloseSession(w)
          /\ taint' = [taint EXCEPT ![HostOf(w)] =
                          IF @ = "clean" THEN "forced" ELSE @]
          /\ UNCHANGED <<sigSent, pos, startLen, fileExists, file>>
    /\ UNCHANGED <<configVars, waiter, relayVars, stderrInErr, nameVars, dialVars, machine, cancelled, shuttingDown,
                   schedVars, item, result, statNotExist, resetSession, client, outWriter,
                   waitErr>>

\* Line 158 as a receive that does not block.
awaitErrChNoWait(w) ==
    /\ pc[w] = "await"
    /\ waitErr' = [waitErr EXCEPT ![w] = exitErr[w]]
    /\ pc' = [pc EXCEPT ![w] = "finish"]
    /\ UNCHANGED <<configVars, waiter, relayVars, stderrInErr, nameVars, dialVars, machine, cancelled, shuttingDown,
                   schedVars, item, result, statNotExist, resetSession, client, session,
                   outWriter, sigSent, forced, procVars, fsVars>>

\* waitErr = <-errCh after the signal or the forced close (line 158).
awaitErrCh(w) ==
    /\ pc[w] = "await"
    /\ ErrChReady(w)
    /\ waitErr' = [waitErr EXCEPT ![w] = exitErr[w]]
    /\ pc' = [pc EXCEPT ![w] = "finish"]
    /\ waiter' = [waiter EXCEPT ![w] = "done"]
    /\ UNCHANGED <<configVars, relayVars, stderrInErr, nameVars, dialVars, machine, cancelled, shuttingDown,
                   schedVars, item, result, statNotExist, resetSession, client, session,
                   outWriter, sigSent, forced, procVars, fsVars>>

\* Line 171 without the test of ctx.Err().
StreamResultIgnoresCtx(w) == IF waitErr[w] THEN "err" ELSE "nil"

\* The error stream returns at lines 171-175, wrapped unchanged by
\* StreamFromRemote (lines 43-47) and Reconcile (lines 600-606).
StreamResult(w) == IF ~cancelled /\ waitErr[w] THEN "err" ELSE "nil"

\* Lines 161-176: session.Close(), outWriter.Close(), the result.
streamFinish(w) ==
    /\ pc[w] = "finish"
    /\ CloseSession(w)
    /\ outWriter' = [outWriter EXCEPT ![w] = "closed"]
    /\ Return(w, StreamResult(w))
    /\ stderrInErr' = [stderrInErr EXCEPT ![w] =
                          IF StreamResult(w) = "err" THEN "missing" ELSE @]
    /\ UNCHANGED <<configVars, waiter, relayVars, nameVars, dialVars, machine, cancelled, shuttingDown,
                   schedVars, item, statNotExist, resetSession, sigSent, forced, waitErr, pos,
                   startLen, fileExists, file, taint>>

\* ------------------------------------- the controller around Reconcile
\* A controller that requeues every request with a delay, whatever the result.
RequeuesAlways(r) == TRUE

\* A controller that never requeues a request.
RequeuesNever(r) == FALSE

\* Whether the controller requeues the request with the rate limiter's delay:
\* reconcileHandler does so for an error and forgets the item otherwise.
Requeues(r) == r = "err"

\* reconcileHandler after Reconcile returned, then Done (deferred).
\*   err # nil: Queue.AddRateLimited(req), that is AddAfter(req, When(req));
\*   otherwise: Queue.Forget(req).
\* AddAfter does nothing once the queue is shutting down; otherwise the item
\* waits (an entry already waiting for it keeps the earlier due time).
reconcileHandler(w) ==
    /\ pc[w] = "returned"
    /\ LET h == HostOf(w) IN
       /\ IF Requeues(result[w])
          THEN /\ failures' = [failures EXCEPT ![h] = @ + 1]
               /\ lastDelay' = [lastDelay EXCEPT ![h] = When(failures[h])]
               /\ IF shuttingDown
                  THEN UNCHANGED waitingFor
                  ELSE waitingFor' = [waitingFor EXCEPT ![h] = TRUE]
          ELSE /\ failures' = [failures EXCEPT ![h] = 0]
               /\ lastDelay' = [lastDelay EXCEPT ![h] = 0]
               /\ UNCHANGED waitingFor
       /\ processing' = processing \ {h}
       /\ queue' = DoneQueue(queue, dirty, h)
    /\ item' = [item EXCEPT ![w] = NoItem]
    /\ pc' = [pc EXCEPT ![w] = "idle"]
    /\ result' = [result EXCEPT ![w] = "none"]
    /\ statNotExist' = [statNotExist EXCEPT ![w] = FALSE]
    /\ client' = [client EXCEPT ![w] = "none"]
    /\ resetSession' = [resetSession EXCEPT ![w] = "none"]
    /\ session' = [session EXCEPT ![w] = "none"]
    /\ outWriter' = [outWriter EXCEPT ![w] = "none"]
    /\ sigSent' = [sigSent EXCEPT ![w] = FALSE]
    /\ forced' = [forced EXCEPT ![w] = FALSE]
    /\ waitErr' = [waitErr EXCEPT ![w] = FALSE]
    /\ proc' = [proc EXCEPT ![w] = "none"]
    /\ exitErr' = [exitErr EXCEPT ![w] = FALSE]
    /\ pos' = [pos EXCEPT ![w] = 0]
    /\ inflight' = [inflight EXCEPT ![w] = 0]
    /\ startLen' = [startLen EXCEPT ![w] = 0]
    /\ stderrInErr' = [stderrInErr EXCEPT ![w] = "none"]
    /\ waiter' = [waiter EXCEPT ![w] = "none"]
    /\ UNCHANGED <<configVars, relayVars, nameVars, dialVars, machine, cancelled, shuttingDown,
                   dirty, fsVars>>

\* ------------------------------------------------- process lifetime
\* The signal handler cancels the context handed to mgr.Start.
Cancel ==
    /\ ~cancelled
    /\ cancelled' = TRUE
    /\ UNCHANGED <<configVars, relayVars, nameVars, dialVars, machine, shuttingDown, schedVars,
                   workerVars, procVars, fsVars>>

\* The controller, seeing the context done, shuts the queue down.
QueueShutDown ==
    /\ cancelled
    /\ ~shuttingDown
    /\ shuttingDown' = TRUE
    /\ UNCHANGED <<configVars, relayVars, nameVars, dialVars, machine, cancelled, schedVars,
                   workerVars, procVars, fsVars>>

\* Every worker has left (the queue is shut down and drained), main returns,
\* and the program is started again: the initial list of Machines is queued.
\* The local journal files and the remote cursor files outlive the process.
Restart ==
    /\ cancelled
    /\ shuttingDown
    /\ queue = {}
    /\ \A w \in Workers : pc[w] = "idle"
    /\ cancelled' = FALSE
    /\ shuttingDown' = FALSE
    /\ queue' = {h \in Hosts : machine[h] # "absent"}
    /\ dirty' = {h \in Hosts : machine[h] # "absent"}
    /\ processing' = {}
    /\ waitingFor' = [h \in Hosts |-> FALSE]
    /\ failures' = [h \in Hosts |-> 0]
    /\ lastDelay' = [h \in Hosts |-> 0]
    /\ UNCHANGED <<configVars, relayVars, nameVars, dialVars, machine, workerVars, procVars, fsVars>>

\* Somebody removes a local journal file (the program itself never does).
DeleteLocalFile(h) ==
    /\ fileExists[h]
    /\ fileExists' = [fileExists EXCEPT ![h] = FALSE]
    /\ file' = [file EXCEPT ![h] = <<>>]
    /\ UNCHANGED <<configVars, relayVars, nameVars, dialVars, machine, cancelled, shuttingDown,
                   schedVars, workerVars, procVars, cursor, taint>>

\* ------------------------------------------------------ specification
MachineStates == {"absent", "noaddr", "addr"}

\* The state of a freshly started program; the configuration, the fleet and
\* the remote journals are left to the two specifications below.
Started ==
    /\ maxConcurrentReconciles \in 1..MaxWorkers
    /\ machine \in [Hosts -> MachineStates]
    /\ \A h \in Hosts \ fleet : machine[h] = "absent"
    /\ cancelled = FALSE
    /\ shuttingDown = FALSE
    /\ queue = {h \in Hosts : machine[h] # "absent"}
    /\ dirty = queue
    /\ processing = {}
    /\ waitingFor = [h \in Hosts |-> FALSE]
    /\ failures = [h \in Hosts |-> 0]
    /\ lastDelay = [h \in Hosts |-> 0]
    /\ item = [w \in Workers |-> NoItem]
    /\ pc = [w \in Workers |-> "idle"]
    /\ result = [w \in Workers |-> "none"]
    /\ statNotExist = [w \in Workers |-> FALSE]
    /\ client = [w \in Workers |-> "none"]
    /\ resetSession = [w \in Workers |-> "none"]
    /\ session = [w \in Workers |-> "none"]
    /\ outWriter = [w \in Workers |-> "none"]
    /\ sigSent = [w \in Workers |-> FALSE]
    /\ forced = [w \in Workers |-> FALSE]
    /\ waitErr = [w \in Workers |-> FALSE]
    /\ proc = [w \in Workers |-> "none"]
    /\ exitErr = [w \in Workers |-> FALSE]
    /\ pos = [w \in Workers |-> 0]
    /\ inflight = [w \in Workers |-> 0]
    /\ fileExists = [h \in Hosts |-> FALSE]
    /\ file = [h \in Hosts |-> <<>>]
    /\ cursor \in [Hosts -> {NoCursor, 1}]
    /\ \A h \in Hosts : cursor[h] <= journal[h]
    /\ taint = [h \in Hosts |-> "other"]
    /\ startLen = [w \in Workers |-> 0]
    /\ stderrInErr = [w \in Workers |-> "none"]
    /\ waiter = [w \in Workers |-> "none"]
    /\ relayPc = [w \in Workers |-> "bastion"]
    /\ bastionConn = [w \in Workers |-> "none"]
    /\ machineClient = [w \in Workers |-> "none"]
    /\ relayRes = [w \in Workers |-> "none"]
    /\ dialPc = [w \in Workers |-> "dial"]
    /\ dialGo = [w \in Workers |-> "none"]
    /\ dialConn = [w \in Workers |-> "none"]
    /\ dialClient = [w \in Workers |-> "none"]
    /\ dialRes = [w \in Workers |-> "none"]
    /\ namespacedName = [w \in Workers |-> <<>>]
    /\ journalPath = [w \in Workers |-> <<>>]

\* One host, its journal holding JournalLen entries, and every worker started.
Init ==
    /\ fleet = {1}
    /\ failureBound = MaxFailures
    /\ journal = [h \in Hosts |-> IF h = 1 THEN JournalLen ELSE 0]
    /\ Started
    /\ maxConcurrentReconciles = MaxWorkers

Next ==
    \/ \E h \in Hosts, m \in MachineStates : MachineEvent(h, m)
    \/ \E h \in Hosts : DelayElapsed(h)
    \/ \E w \in Workers, h \in Hosts : Get(w, h)
    \/ \E w \in Workers : Reconcile(w)
    \/ \E w \in Workers : NewClient(w)
    \/ \E w \in Workers : StreamFromRemote(w)
    \/ \E w \in Workers : resetCursorFile(w)
    \/ \E w \in Workers : stream(w)
    \/ \E w \in Workers : RemoteEmit(w)
    \/ \E w \in Workers : LocalWrite(w)
    \/ \E w \in Workers : RemoteSigterm(w)
    \/ \E w \in Workers : RemoteExit(w)
    \/ \E w \in Workers : selectErrCh(w)
    \/ \E w \in Workers : selectDone(w)
    \/ \E w \in Workers : awaitErrCh(w)
    \/ \E w \in Workers : streamFinish(w)
    \/ \E w \in Workers : reconcileHandler(w)
    \/ Cancel
    \/ QueueShutDown
    \/ Restart
    \/ \E h \in Hosts : DeleteLocalFile(h)

Spec == Init /\ [][Next]_vars

\* Every host, each with an address and an empty journal, and fewer workers
\* than hosts: the scheduling of the attempts of several hosts.  Each host is
\* followed up to its first failure, and the program is not shut down.
InitFleet ==
    /\ fleet = Hosts
    /\ failureBound = 1
    /\ journal = [h \in Hosts |-> 0]
    /\ Started
    /\ maxConcurrentReconciles < NumHosts
    /\ \A h \in Hosts : machine[h] = "addr"

NextFleet ==
    \/ \E h \in Hosts : MachineEvent(h, "addr")
    \/ \E h \in Hosts : DelayElapsed(h)
    \/ \E w \in Workers, h \in Hosts : Get(w, h)
    \/ \E w \in Workers : Reconcile(w)
    \/ \E w \in Workers : NewClient(w)
    \/ \E w \in Workers : StreamFromRemote(w)
    \/ \E w \in Workers : resetCursorFile(w)
    \/ \E w \in Workers : stream(w)
    \/ \E w \in Workers : RemoteExit(w)
    \/ \E w \in Workers : selectErrCh(w)
    \/ \E w \in Workers : streamFinish(w)
    \/ \E w \in Workers : reconcileHandler(w)

SpecFleet == InitFleet /\ [][NextFleet]_vars

\* One host and one worker, the host's Machine either absent or without an
\* address, so that every attempt ends in Reconcile itself, and the failures
\* of the host followed up to where the doubled delay is beyond MaxInt64.
InitBackoff ==
    /\ fleet = {1}
    /\ failureBound = MaxExp + 1
    /\ journal = [h \in Hosts |-> 0]
    /\ Started
    /\ maxConcurrentReconciles = 1
    /\ machine[1] \in {"absent", "noaddr"}

NextBackoff ==
    \/ \E h \in Hosts, m \in {"absent", "noaddr"} : MachineEvent(h, m)
    \/ \E h \in Hosts : DelayElapsed(h)
    \/ \E w \in Workers, h \in Hosts : Get(w, h)
    \/ \E w \in Workers : Reconcile(w)
    \/ \E w \in Workers : reconcileHandler(w)
    \/ Cancel
    \/ QueueShutDown
    \/ Restart

SpecBackoff == InitBackoff /\ [][NextBackoff]_vars

\* Spec with the progress the runtime and the remote side give: a goroutine
\* that can take its next step in stream takes it, the session keeps copying
\* what is in flight, and journalctl obeys a SIGTERM that was sent to it.
Fairness ==
    \A w \in Workers :
        /\ WF_vars(selectErrCh(w))
        /\ WF_vars(selectDone(w))
        /\ WF_vars(awaitErrCh(w))
        /\ WF_vars(streamFinish(w))
        /\ WF_vars(LocalWrite(w))
        /\ WF_vars(RemoteSigterm(w))

\* One host and one worker, the host followed up to its first failure.
InitSingle ==
    /\ fleet = {1}
    /\ failureBound = 1
    /\ journal = [h \in Hosts |-> IF h = 1 THEN JournalLen ELSE 0]
    /\ Started
    /\ maxConcurrentReconciles = 1

FairSpec == InitSingle /\ [][Next]_vars /\ Fairness

\* The calls of DialContext by themselves: no Machine exists, every worker
\* makes one call, and the context may be cancelled at any point.
InitDial ==
    /\ InitSingle
    /\ \A h \in Hosts : machine[h] = "absent"

NextDial ==
    \/ \E w \in Workers : DialContext(w)
    \/ \E w \in Workers : NewClientConn(w)
    \/ \E w \in Workers : sendResult(w)
    \/ \E w \in Workers : goroutineDone(w)
    \/ \E w \in Workers : callerDone(w)
    \/ Cancel

SpecDial == InitDial /\ [][NextDial]_vars

\* The naming of the local journal files by itself: every worker reconciles
\* Machines of any namespace and name.
NextNaming == \E w \in Workers : ReconcilePath(w)

SpecNaming == InitDial /\ [][NextNaming]_vars

\* Host 1 has an address and is followed through MaxFailures consecutive
\* failures of its attempts (connect, cursor reset, follow); the other hosts
\* have no address yet, so that their attempts end at once, and every host
\* keeps receiving Machine events.  There are fewer workers than hosts.
InitIsolation ==
    /\ fleet = Hosts
    /\ failureBound = MaxFailures
    /\ journal = [h \in Hosts |-> 0]
    /\ Started
    /\ maxConcurrentReconciles < NumHosts
    /\ \A h \in Hosts : machine[h] = IF h = 1 THEN "addr" ELSE "noaddr"

NextIsolation ==
    \/ \E h \in Hosts : MachineEvent(h, machine[h])
    \/ \E h \in Hosts : DelayElapsed(h)
    \/ \E w \in Workers, h \in Hosts : Get(w, h)
    \/ \E w \in Workers : Reconcile(w)
    \/ \E w \in Workers : NewClient(w)
    \/ \E w \in Workers : StreamFromRemote(w)
    \/ \E w \in Workers : resetCursorFile(w)
    \/ \E w \in Workers : stream(w)
    \/ \E w \in Workers : RemoteExit(w)
    \/ \E w \in Workers : selectErrCh(w)
    \/ \E w \in Workers : streamFinish(w)
    \/ \E w \in Workers : reconcileHandler(w)

SpecIsolation == InitIsolation /\ [][NextIsolation]_vars

\* The calls of NewClientWithBastion by themselves, each with its call of
\* DialContext for the bastion, and the context cancelled at any point.
NextBastion ==
    \/ \E w \in Workers : DialContext(w)
    \/ \E w \in Workers : NewClientConn(w)
    \/ \E w \in Workers : sendResult(w)
    \/ \E w \in Workers : goroutineDone(w)
    \/ \E w \in Workers : callerDone(w)
    \/ \E w \in Workers : bastionDialed(w)
    \/ \E w \in Workers : tunnelDial(w)
    \/ \E w \in Workers : machineHandshake(w)
    \/ \E w \in Workers : machineClientClose(w)
    \/ Cancel

SpecBastion == InitDial /\ [][NextBastion]_vars

\* The progress the Go runtime and the context-aware dials give: a select
\* whose case is ready is left, d.DialContext and bastionClient.DialContext
\* return, and the caller goes on after each call.  Nothing is assumed of a
\* handshake, which ends when the peer answers.
FairnessBastion ==
    \A w \in Workers :
        /\ WF_vars(DialContext(w))
        /\ WF_vars(sendResult(w))
        /\ WF_vars(goroutineDone(w))
        /\ WF_vars(callerDone(w))
        /\ WF_vars(bastionDialed(w))
        /\ WF_vars(tunnelDial(w))

FairSpecBastion == InitDial /\ [][NextBastion]_vars /\ FairnessBastion

\* FairSpec with, besides, the progress of every step of an attempt that has
\* its SSH client: the Reconcile call up to the dial, the cursor reset and the
\* start of the follow command on a connection that answers, and the
\* controller's handling of the result.  ssh.Dial is given no deadline and no
\* context (client.go lines 18-30), so nothing says that NewClient returns.
FairnessConnected ==
    \A w \in Workers :
        /\ WF_vars(Reconcile(w))
        /\ WF_vars(StreamFromRemote(w))
        /\ WF_vars(resetCursorFile(w))
        /\ WF_vars(stream(w))
        /\ WF_vars(reconcileHandler(w))

FairSpecConnected == InitSingle /\ [][Next]_vars /\ Fairness /\ FairnessConnected

\* =================================================================== claims
InFollow(w) == pc[w] \in {"select", "await"}

\* C1: in every attempt whose check found the local journal file absent, the
\* remote cursor file has been deleted before the follow command is started:
\* the attempt reaches the start of stream only with the cursor file gone, and
\* the cursor file does not exist at the step that starts the follow command.
C1_CursorReset ==
    [][\A w \in Workers :
          /\ (pc'[w] = "stream" /\ statNotExist'[w])
                => cursor'[item'[w]] = NoCursor
          /\ (pc[w] = "stream" /\ pc'[w] = "select" /\ statNotExist[w])
                => /\ cursor[HostOf(w)] = NoCursor
                   /\ cursor'[HostOf(w)] = NoCursor]_vars

\* C1 witness: the follow command runs in an attempt that found no local file.
C1_Witness ==
    \E w \in Workers :
        /\ pc[w] = "select"
        /\ statNotExist[w]
        /\ proc[w] = "running"
        /\ cursor[HostOf(w)] = NoCursor

\* C2: at every instant at most one attempt (Reconcile invocation) is active
\* for a host, so at most one SSH client to it is open and at most one handle
\* on its local journal file is open for writing.
C2_OneAttemptPerHost ==
    \A h \in Hosts :
        /\ Cardinality({w \in Workers : item[w] = h}) <= 1
        /\ Cardinality({w \in Workers : item[w] = h /\ client[w] = "open"}) <= 1
        /\ Cardinality({w \in Workers : item[w] = h /\ outWriter[w] = "open"}) <= 1

\* C2 witness: an event for the host arrived while its attempt is streaming
\* and a second worker is free.
C2_Witness ==
    \E w1, w2 \in Workers :
        /\ w1 # w2
        /\ w2 <= maxConcurrentReconciles
        /\ pc[w1] = "select"
        /\ client[w1] = "open"
        /\ pc[w2] = "idle"
        /\ HostOf(w1) \in dirty

Entries(n) == [i \in 1..n |-> i]

CursorPos(h) == IF cursor[h] = NoCursor THEN 0 ELSE cursor[h]

\* The local file of h holds the journal's entries in order without gap or
\* repetition, and it ends where the remote side stands: at what the running
\* follow command has emitted less what is still in flight, or, with no
\* follow command running, at the entry the cursor file names.
InStep(h) ==
    /\ file[h] = Entries(Len(file[h]))
    /\ \A w \in Workers :
          (item[w] = h /\ proc[w] = "running")
            => pos[w] - inflight[w] = Len(file[h])
    /\ (\A w \in Workers : item[w] = h => proc[w] # "running")
          => /\ CursorPos(h) = Len(file[h]) + 
                  (IF \E w \in Workers : item[w] = h THEN
                     inflight[CHOOSE w \in Workers : item[w] = h] ELSE 0)

\* C4 as stated: when an attempt that resumed on an existing local file has
\* returned, itself stopped without a forced close, every earlier attempt on
\* that file having been stopped by cancellation (interrupt or forced close),
\* the file never deleted, then the file holds the ordered journal without
\* repetition or gap, up to the entry the cursor file names.
C4_Fidelity ==
    \A w \in Workers :
        (/\ pc[w] = "returned"
         /\ proc[w] = "exited"
         /\ ~statNotExist[w]
         /\ ~forced[w]
         /\ fileExists[HostOf(w)]
         /\ taint[HostOf(w)] \in {"clean", "forced"})
          => /\ file[HostOf(w)] = Entries(Len(file[HostOf(w)]))
             /\ CursorPos(HostOf(w)) = Len(file[HostOf(w)])

\* C4 where it does hold: over attempts that were each stopped by a
\* cancellation whose interrupt was sent (session.Signal succeeded), none by
\* the forced close, the local file, if nobody deleted it, holds the ordered
\* journal without repetition or gap and stays in step with the remote side,
\* at every moment and so also after the second attempt.
C4_FidelityInterrupted ==
    \A h \in Hosts :
        (fileExists[h] /\ taint[h] = "clean") => InStep(h)

\* C4 witness: the first attempt on a fresh file is cancelled, the interrupt
\* cannot be sent and the session is closed without waiting; the entry in
\* flight is dropped while the cursor file names it, and the file lacks it.
C4_Witness ==
    \E w \in Workers :
        /\ pc[w] = "await"
        /\ forced[w]
        /\ statNotExist[w]
        /\ fileExists[HostOf(w)]
        /\ taint[HostOf(w)] = "forced"
        /\ inflight[w] = 0
        /\ cursor[HostOf(w)] = 1
        /\ file[HostOf(w)] = <<>>

\* C4, the case of the delivered interrupt: a second attempt found the file
\* holding the first entry, resumed, was stopped by a delivered interrupt and
\* returned nil; the file holds both entries.
C4_ResumedWitness ==
    \E w \in Workers :
        /\ pc[w] = "returned"
        /\ result[w] = "nil"
        /\ sigSent[w]
        /\ startLen[w] = 1
        /\ taint[HostOf(w)] = "clean"
        /\ file[HostOf(w)] = <<1, 2>>
        /\ cursor[HostOf(w)] = 2

\* C5: once the follow command has started, StreamFromRemote returns nil
\* whenever the context is cancelled by the time it returns, whatever the
\* error the remote command ended with, and returns an error when the remote
\* command ended with an error and the context was not cancelled.
C5_Result ==
    [][\A w \in Workers :
          (pc[w] = "finish" /\ pc'[w] = "returned")
            => /\ cancelled => result'[w] = "nil"
               /\ (~cancelled /\ exitErr[w]) => result'[w] = "err"]_vars

\* C5 witness: the remote command ended with an error, the context was
\* cancelled, and the attempt returned nil.
C5_Witness ==
    \E w \in Workers :
        /\ pc[w] = "returned"
        /\ proc[w] = "exited"
        /\ exitErr[w]
        /\ cancelled
        /\ result[w] = "nil"

\* C6: stream leaves the wait only when session.Wait() has returned.  When
\* the context is cancelled while the follow command runs, the only way on is
\* the cancellation branch, which has sent the interrupt or, failing that,
\* has closed the session; after it stream still waits for session.Wait().
\* So stream never goes on, or returns, while the remote command is running
\* and attached to the local file.
C6_CancelOrder ==
    [][\A w \in Workers :
          /\ (pc[w] = "select" /\ pc'[w] # "select" /\ proc[w] = "running")
                => /\ cancelled
                   /\ pc'[w] = "await"
                   /\ \/ sigSent'[w] /\ session'[w] = "open"
                      \/ forced'[w] /\ session'[w] = "closed"
          /\ (InFollow(w) /\ pc'[w] = "finish") => ErrChReady(w)
          /\ (pc'[w] \in {"finish", "returned", "idle"})
                => (proc'[w] # "running" /\ inflight'[w] = 0)]_vars

\* C6 witness: the interrupt was sent and stream is still waiting while the
\* remote command runs.
C6_Witness ==
    \E w \in Workers :
        /\ pc[w] = "await"
        /\ sigSent[w]
        /\ proc[w] = "running"
        /\ outWriter[w] = "open"

Running == {w \in Workers : pc[w] \notin {"idle", "returned"}}

\* The workers that hold a slot: from Get until reconcileHandler is done.
Busy == {w \in Workers : pc[w] # "idle"}

\* C8: the number of running attempts over all hosts never exceeds
\* MaxConcurrentReconciles; a queued item is taken up only while fewer than
\* that many slots are held, and a slot is given up only after the Reconcile
\* call of its attempt has returned.
C8_BoundedConcurrency ==
    [][/\ Cardinality(Busy') <= maxConcurrentReconciles
       /\ Cardinality(Running') <= maxConcurrentReconciles
       /\ Cardinality(processing') <= maxConcurrentReconciles
       /\ \A w \in Workers :
            /\ (pc[w] = "idle" /\ pc'[w] # "idle")
                  => /\ Cardinality(Busy) < maxConcurrentReconciles
                     /\ item'[w] \in queue
            /\ (pc[w] # "idle" /\ pc'[w] = "idle") => pc[w] = "returned"]_vars

\* C8 witness: every slot is held by an attempt that follows a journal while
\* another host is queued and waits.
C8_Witness ==
    /\ Cardinality({w \in Workers : pc[w] = "select"}) = maxConcurrentReconciles
    /\ \E h \in queue : h \notin processing

\* The delay after the k-th consecutive failure as the claim describes it:
\* the base delay, doubled with each further failure, never above the cap.
RECURSIVE Doubled(_)
Doubled(k) ==
    IF k <= 1
    THEN IF RequeueBaseDelay > RequeueMaxDelay
         THEN RequeueMaxDelay ELSE RequeueBaseDelay
    ELSE LET before == Doubled(k - 1)
         IN  IF 2 * before > RequeueMaxDelay
             THEN RequeueMaxDelay ELSE 2 * before

\* C9: the delay computed after the k-th consecutive failure of a host is the
\* base delay for k = 1 and doubles with each further failure, is never
\* smaller than the one before and never above RequeueMaxDelay, for every
\* number of failures up to MaxExp + 1 (from the 31st failure on the doubled
\* base delay is beyond MaxInt64); each failed attempt counts one more failure
\* and is given that delay, and after an attempt that returned nil the count
\* is zero, so that the next failure is given the base delay again.
C9_Backoff ==
    [][/\ When(0) = RequeueBaseDelay
       /\ \A w \in Workers :
            (pc[w] = "returned" /\ pc'[w] = "idle")
              => LET h == HostOf(w) IN
                 /\ result[w] = "err"
                      => /\ failures'[h] = failures[h] + 1
                         /\ lastDelay'[h] = Doubled(failures'[h])
                         /\ lastDelay'[h] >= lastDelay[h]
                         /\ lastDelay'[h] <= RequeueMaxDelay
                         /\ failures[h] = 0 => lastDelay'[h] = RequeueBaseDelay
                 /\ result[w] = "nil"
                      => /\ failures'[h] = 0
                         /\ lastDelay'[h] = 0]_vars

\* C9 witness: a host has failed so often in a row that the doubled base
\* delay is beyond MaxInt64, and its last delay is the cap.
C9_Witness ==
    \E h \in Hosts :
        /\ failures[h] >= 1
        /\ Pow2Exceeds(failures[h] - 1, MaxInt64 \div RequeueBaseDelay)
        /\ lastDelay[h] = RequeueMaxDelay
        /\ waitingFor[h]

\* C10 as stated: every attempt that ended with an error leaves its host
\* waiting for the backoff delay to be queued again, and every attempt that
\* ended with nil leaves its host with nothing pending that would run it
\* again, unless an event for it arrived meanwhile.
C10_Outcome ==
    [][\A w \in Workers :
          (pc[w] = "returned" /\ pc'[w] = "idle")
            => LET h == HostOf(w) IN
               /\ result[w] = "err" => waitingFor'[h]
               /\ (result[w] = "nil" /\ h \notin dirty)
                    => (h \notin queue' /\ ~waitingFor'[h])]_vars

\* C10 amended: an attempt that ended with an error counts a failure and,
\* unless the queue is shutting down, leaves its host waiting for the backoff
\* delay When gives; an attempt that ended with nil arms no delay and clears
\* the failure count, a delay armed by an earlier failure staying pending.
\* Either way the host is queued at once exactly when an event arrived for it
\* during the attempt.  A host enters the queue only by an event, by the
\* program's start, by a delay that elapsed, or at the end of an attempt
\* during which an event arrived.
C10_OutcomeUnlessStopped ==
    [][/\ \A w \in Workers :
            (pc[w] = "returned" /\ pc'[w] = "idle")
              => LET h == HostOf(w) IN
                 /\ result[w] = "err"
                      => /\ failures'[h] = failures[h] + 1
                         /\ lastDelay'[h] = When(failures[h])
                         /\ waitingFor'[h] = (waitingFor[h] \/ ~shuttingDown)
                 /\ result[w] = "nil"
                      => /\ failures'[h] = 0
                         /\ waitingFor'[h] = waitingFor[h]
                 /\ result[w] \in {"err", "nil"}
                 /\ h \notin processing'
                 /\ h \notin queue
                 /\ h \in queue' <=> h \in dirty
       /\ \A h \in Hosts :
            (h \notin queue /\ h \in queue')
              => \/ h \notin dirty /\ h \in dirty' /\ h \notin processing
                 \/ waitingFor[h] /\ ~waitingFor'[h] /\ h \notin processing
                 \/ h \in dirty /\ h \in processing /\ h \notin processing']_vars

\* C10 witness: a failed attempt has been handled; its host is neither queued
\* nor processed and waits for the doubled delay of its second failure.
C10_Witness ==
    \E h \in Hosts :
        /\ waitingFor[h]
        /\ failures[h] = 2
        /\ lastDelay[h] = 2 * RequeueBaseDelay
        /\ h \notin queue
        /\ h \notin processing
        /\ ~shuttingDown

C12_ShutdownEnds ==
    \A w \in Workers :
        (pc[w] # "idle" /\ cancelled)
          ~> (/\ pc[w] \in {"returned", "idle"}
              /\ proc[w] # "running"
              /\ outWriter[w] # "open")

\* C12 witness: the shutdown signal arrives while an attempt is connecting.
C12_Witness ==
    \E w \in Workers :
        /\ pc[w] = "dial"
        /\ cancelled
        /\ shuttingDown

\* C13: whenever StreamFromRemote has returned, by whichever path, the session
\* of the cursor reset, the session of the follow command and the local file
\* descriptor that the attempt opened are closed.
C13_Released ==
    \A w \in Workers :
        pc[w] = "returned"
          => /\ resetSession[w] # "open"
             /\ session[w] # "open"
             /\ outWriter[w] # "open"

\* C13 failing input: the follow command could not be started (or the local
\* file could not be opened) and StreamFromRemote returned its error with the
\* session it had created still open.
C13_Witness ==
    \E w \in Workers :
        /\ pc[w] = "returned"
        /\ result[w] = "err"
        /\ session[w] = "open"
        /\ outWriter[w] # "open"
        /\ proc[w] = "none"

\* C14: in an attempt that found no local file, a cursor reset that fails
\* (no session, or the rm command returns an error) ends the attempt with an
\* error: the step that fails leaves the local file as it was, absent if it was
\* absent, the attempt has then opened no follow session and no local file
\* and started no remote command, and any attempt that is past the reset has
\* a reset that succeeded.
C14_ResetAbort ==
    [][\A w \in Workers :
          /\ (pc[w] = "reset" /\ pc'[w] = "returned")
                => /\ result'[w] = "err"
                   /\ UNCHANGED <<session, outWriter, procVars, fileExists,
                                  file>>
          /\ (pc'[w] = "returned" /\ statNotExist'[w]
                 /\ resetSession'[w] # "closed")
                => /\ result'[w] = "err"
                   /\ session'[w] = "none"
                   /\ outWriter'[w] = "none"
          /\ (pc'[w] \in {"stream", "select", "await", "finish"}
                 /\ statNotExist'[w])
                => resetSession'[w] = "closed"]_vars

\* C14 witness: the rm command of the cursor reset failed, the attempt
\* returned the error and the local file still does not exist.
C14_Witness ==
    \E w \in Workers :
        /\ pc[w] = "returned"
        /\ statNotExist[w]
        /\ resetSession[w] = "open"
        /\ result[w] = "err"
        /\ session[w] = "none"
        /\ ~fileExists[HostOf(w)]

\* s is a prefix of t.
IsPrefix(s, t) == Len(s) <= Len(t) /\ SubSeq(t, 1, Len(s)) = s

\* C15: a local journal file that exists keeps existing and its new content
\* has its previous content as a prefix in every step of the program, whether
\* attempts succeed, fail or are cancelled; only a removal from outside the
\* program ends a file.
C15_AppendOnly ==
    [][\A h \in Hosts :
          fileExists[h]
            => \/ DeleteLocalFile(h)
               \/ /\ fileExists'[h]
                  /\ IsPrefix(file[h], file'[h])]_vars

\* C15 witness: an attempt that found a file with content has appended to it.
C15_Witness ==
    \E w \in Workers :
        /\ item[w] # NoItem
        /\ fileExists[HostOf(w)]
        /\ startLen[w] >= 1
        /\ Len(file[HostOf(w)]) > startLen[w]
        /\ outWriter[w] = "open"

\* C16: a connect whose context is cancelled before it has completed comes
\* back with an error and leaves no open client behind.
C16_ConnectCancelled ==
    [][\A w \in Workers :
          (pc[w] = "dial" /\ cancelled /\ pc'[w] # "dial")
            => /\ pc'[w] = "returned"
               /\ result'[w] = "err"
               /\ client'[w] # "open"]_vars

\* C16 failing input: the context was cancelled, the queue is not yet shut
\* down, and the attempt holds a connected client and goes on to the journal.
C16_Witness ==
    \E w \in Workers :
        /\ pc[w] = "stat"
        /\ client[w] = "open"
        /\ cancelled
        /\ ~shuttingDown

\* C17: in every call of DialContext, whatever the order of the handshake's
\* end and the cancellation, a client the goroutine made is, once the
\* goroutine has ended, either the one the call returned or closed, never
\* both and never neither; once both have ended the call has returned; and
\* a client that was returned stays open when the context is cancelled later.
C17_HandOff ==
    \A w \in Workers :
        /\ dialRes[w] = "client" => dialClient[w] = "open"
        /\ (dialGo[w] = "done" /\ dialClient[w] # "none")
              => ((dialRes[w] = "client") # (dialClient[w] = "closed"))
        /\ (dialGo[w] = "done" /\ dialPc[w] = "done")
              => dialRes[w] \in {"client", "err", "cause"}

\* C17 witness: one call returned its client and the context was cancelled
\* afterwards; in another call the cancellation won and the goroutine closed
\* the client it had made.
C17_Witness ==
    \E w, v \in Workers :
        /\ dialRes[w] = "client"
        /\ dialClient[w] = "open"
        /\ cancelled
        /\ dialRes[v] = "cause"
        /\ dialClient[v] = "closed"
        /\ dialGo[v] = "done"

\* C18: a Reconcile call that finds its Machine without an address returns
\* nil at once: it has opened no SSH client and no session, started no remote
\* command and left every local file and cursor file as it was; and the
\* controller, handed a nil result, counts no failure and arms no requeue.
C18_NoAddress ==
    [][\A w \in Workers :
          /\ (pc[w] = "reconcile" /\ ~cancelled
                 /\ machine[HostOf(w)] = "noaddr" /\ pc'[w] # "reconcile")
                => /\ pc'[w] = "returned"
                   /\ result'[w] = "nil"
                   /\ client'[w] = "none"
                   /\ UNCHANGED <<resetSession, session, outWriter, procVars,
                                  fsVars, schedVars>>
          /\ (pc[w] = "returned" /\ result[w] = "nil" /\ pc'[w] = "idle")
                => /\ failures'[HostOf(w)] = 0
                   /\ lastDelay'[HostOf(w)] = 0
                   /\ waitingFor' = waitingFor]_vars

\* C18 witness: Reconcile has returned nil for a Machine without an address;
\* there is no client, no local file, and no requeue is waiting.
C18_Witness ==
    \E w \in Workers :
        /\ pc[w] = "returned"
        /\ result[w] = "nil"
        /\ machine[HostOf(w)] = "noaddr"
        /\ client[w] = "none"
        /\ ~fileExists[HostOf(w)]
        /\ ~waitingFor[HostOf(w)]
        /\ ~cancelled

\* C19: the local journal path depends only on the directory and the
\* identity: two attempts for the same (namespace, name) have the same path,
\* and two attempts for different identities have different paths.
C19_Naming ==
    \A w, v \in Workers :
        (namespacedName[w] # <<>> /\ namespacedName[v] # <<>>)
          => /\ namespacedName[w] = namespacedName[v]
                   => journalPath[w] = journalPath[v]
             /\ namespacedName[w] # namespacedName[v]
                   => journalPath[w] # journalPath[v]

\* C19 failing input: Machine "a-a" of namespace "a" and Machine "a" of
\* namespace "a-a" are given the same path.
C19_Witness ==
    \E w, v \in Workers :
        /\ namespacedName[w] = <<(<<"a">>), (<<"a", "-", "a">>)>>
        /\ namespacedName[v] = <<(<<"a", "-", "a">>), (<<"a">>)>>
        /\ journalPath[w] = journalPath[v]

\* C20: a host that waits for the delay of a requeue and is not being
\* processed holds no worker, whatever the number of its failures; and a
\* queued host is admitted as soon as one of the MaxConcurrentReconciles
\* workers is free, whether or not other hosts have failed or wait in backoff.
C20_Isolation ==
    /\ \A g \in Hosts :
          (waitingFor[g] /\ g \notin processing)
            => \A w \in Busy : item[w] # g
    /\ \A h \in queue :
          (Cardinality(Busy) < maxConcurrentReconciles
              /\ failures[h] < failureBound)
            => \E w \in Workers : ENABLED Get(w, h)

\* C20 witness: with a single slot, one host has failed twice and waits in
\* backoff while another host was admitted and its attempt has ended well.
C20_Witness ==
    \E g, h \in Hosts, w \in Workers :
        /\ g # h
        /\ maxConcurrentReconciles = 1
        /\ failures[g] >= 2
        /\ waitingFor[g]
        /\ g \notin processing
        /\ item[w] = h
        /\ pc[w] = "returned"
        /\ result[w] = "nil"

\* A session of worker w no longer exists: it was closed, or the client it
\* was created on has been closed, which ends every session on it.
SessionReleased(w, sess) == sess[w] = "open" => client[w] = "closed"

\* C21: an attempt for a host starts (a worker takes the host from the
\* queue) only when no worker holds that host, and a worker gives a host up
\* only after its Reconcile call has returned with the SSH client closed, no
\* session left on it and the local file handle closed: the next attempt for
\* the host never dials or opens the file before that.
C21_Sequencing ==
    [][\A w \in Workers :
          /\ (pc[w] = "idle" /\ pc'[w] # "idle")
                => /\ pc'[w] = "reconcile"
                   /\ item'[w] \notin processing
                   /\ \A v \in Workers : item[v] # item'[w]
          /\ pc'[w] # "idle" => item'[w] \in processing'
          /\ (pc[w] # "idle" /\ pc'[w] = "idle")
                => /\ pc[w] = "returned"
                   /\ client[w] # "open"
                   /\ outWriter[w] # "open"
                   /\ SessionReleased(w, resetSession)
                   /\ SessionReleased(w, session)]_vars

\* C21 witness: the second attempt for a host is at the connect, after a first
\* attempt that failed inside StreamFromRemote and left a local file.
C21_Witness ==
    \E w \in Workers :
        /\ pc[w] = "dial"
        /\ failures[HostOf(w)] = 1
        /\ fileExists[HostOf(w)]
        /\ client[w] = "none"
        /\ \A v \in Workers \ {w} : pc[v] = "idle"

\* C22: an attempt goes to the cursor reset exactly when its os.Stat reported
\* the local file absent, which it reports only of an absent file; a session
\* for the delete command is created only there; and a remote cursor file
\* changes only by that delete, in an attempt whose check reported the file
\* absent, or by the follow command of an attempt for its host.
C22_ResetOnlyIfAbsent ==
    [][/\ \A w \in Workers :
            /\ (pc[w] = "stat" /\ pc'[w] # "stat")
                  => /\ (pc'[w] = "reset") <=> statNotExist'[w]
                     /\ (pc'[w] = "stream") <=> ~statNotExist'[w]
                     /\ statNotExist'[w] => ~fileExists[HostOf(w)]
                     /\ UNCHANGED <<cursor, resetSession>>
            /\ (resetSession'[w] # resetSession[w] /\ pc'[w] # "idle")
                  => (pc[w] = "reset" /\ statNotExist[w])
       /\ \A h \in Hosts :
            cursor'[h] # cursor[h]
              => \E w \in Workers :
                    /\ item[w] = h
                    /\ \/ /\ pc[w] = "reset"
                          /\ statNotExist[w]
                          /\ cursor'[h] = NoCursor
                       \/ /\ proc[w] = "running"
                          /\ cursor'[h] = pos[w]]_vars

\* C22 witness: the local file exists, the cursor file names an entry, and the
\* attempt has started to follow without a reset, the cursor file untouched.
C22_Witness ==
    \E w \in Workers :
        /\ pc[w] = "select"
        /\ ~statNotExist[w]
        /\ resetSession[w] = "none"
        /\ fileExists[HostOf(w)]
        /\ cursor[HostOf(w)] >= 1
        /\ proc[w] = "running"
        /\ pos[w] = cursor[HostOf(w)]

\* C23: every error that Reconcile returns because a remote command failed
\* (the delete of the cursor file, the start of the follow command, the wait
\* for the follow command) carries the standard error output captured from
\* that command.
C23_Diagnostics ==
    \A w \in Workers :
        (pc[w] = "returned" /\ result[w] = "err")
          => /\ stderrInErr[w] # "missing"
             /\ (resetSession[w] = "open" \/ outWriter[w] = "closed")
                   => stderrInErr[w] = "included"

\* C23 failing input: the follow command ended by itself with an error, the
\* context was not cancelled, and the error returned is without its stderr.
C23_Witness ==
    \E w \in Workers :
        /\ pc[w] = "returned"
        /\ result[w] = "err"
        /\ waitErr[w]
        /\ ~cancelled
        /\ ~sigSent[w]
        /\ ~forced[w]
        /\ stderrInErr[w] = "missing"

\* C24: a Reconcile call whose Machine no longer exists returns without an
\* error, having done nothing, and the controller then neither counts a
\* failure nor requeues the request with a delay.
C24_DeletedMachine ==
    [][\A w \in Workers :
          /\ (pc[w] = "reconcile" /\ ~cancelled
                 /\ machine[HostOf(w)] = "absent" /\ pc'[w] # "reconcile")
                => /\ pc'[w] = "returned"
                   /\ result'[w] = "nil"
                   /\ client'[w] = "none"
          /\ (pc[w] = "returned" /\ machine[HostOf(w)] = "absent"
                 /\ client[w] = "none" /\ ~cancelled /\ pc'[w] = "idle")
                => /\ failures'[HostOf(w)] = 0
                   /\ waitingFor' = waitingFor]_vars

\* C24 failing input: the Machine was deleted, the request for it was handled
\* and the host now waits for a requeue with one failure counted.
C24_Witness ==
    \E h \in Hosts :
        /\ machine[h] = "absent"
        /\ failures[h] = 1
        /\ waitingFor[h]
        /\ h \notin processing
        /\ ~cancelled
        /\ ~fileExists[h]

\* C25: a call of NewClientWithBastion whose context is cancelled before the
\* handshake with the machine has completed returns, in whichever stage the
\* cancellation finds it.
C25_RelayCancelled ==
    \A w \in Workers :
        (cancelled /\ relayPc[w] # "done") ~> (relayPc[w] = "done")

\* C25 failing input: the context is cancelled while the handshake with the
\* machine over the tunnel is under way.
C25_Witness ==
    \E w \in Workers :
        /\ relayPc[w] = "handshake"
        /\ bastionConn[w] = "open"
        /\ dialClient[w] = "open"
        /\ cancelled

\* C26: when NewClientWithBastion has returned an error after the connection
\* to the bastion was established, that connection is closed; and once the
\* client it returned has been closed, the connection to the bastion is
\* closed too.
C26_RelayReleased ==
    \A w \in Workers :
        /\ (relayPc[w] = "done" /\ relayRes[w] \in {"err", "cause"}
               /\ dialRes[w] = "client")
              => dialClient[w] = "closed"
        /\ machineClient[w] = "closed" => dialClient[w] = "closed"

\* C26 failing input: the handshake with the machine failed, the call
\* returned the error, and the connection to the bastion is still open.
C26_Witness ==
    \E w \in Workers :
        /\ relayPc[w] = "done"
        /\ relayRes[w] = "err"
        /\ bastionConn[w] = "closed"
        /\ dialRes[w] = "client"
        /\ dialClient[w] = "open"

\* C27: the goroutine that sends session.Wait() on errCh exists exactly in
\* the attempts whose follow command was started; stream takes its send
\* exactly once, by one of its two receives, and only when session.Wait() has
\* returned; and stream never returns with the goroutine's send not taken.
C27_NoLeakedWaiter ==
    [][\A w \in Workers :
          /\ (waiter'[w] = "started") <=> (pc'[w] \in {"select", "await"})
          /\ (waiter[w] # "done" /\ waiter'[w] = "done")
                => /\ waiter[w] = "started"
                   /\ ErrChReady(w)
                   /\ pc[w] \in {"select", "await"}
                   /\ pc'[w] = "finish"
          /\ (waiter[w] = "done" /\ waiter'[w] # "done") => pc'[w] = "idle"
          /\ pc'[w] = "returned" => waiter'[w] # "started"
          /\ (pc'[w] = "returned" /\ proc'[w] # "none") => waiter'[w] = "done"]_vars

\* C27 witness: stream has returned by the forced-close path with the send of
\* the goroutine taken.
C27_Witness ==
    \E w \in Workers :
        /\ pc[w] = "returned"
        /\ forced[w]
        /\ ~sigSent[w]
        /\ waiter[w] = "done"
        /\ session[w] = "closed"

\* The attempt of worker w has followed a command that ended by itself with
\* a success status, and the context is not cancelled.
CleanExit(w) ==
    /\ proc[w] = "exited"
    /\ ~exitErr[w]
    /\ ~sigSent[w]
    /\ ~forced[w]
    /\ ~cancelled

\* C28 as stated: after a clean exit of the follow command Reconcile returns
\* nil, and once the controller has handled it the host has no failure
\* counted, no delayed requeue pending, and is queued only if an event for it
\* arrived during the attempt.
C28_CleanExit ==
    [][\A w \in Workers :
          /\ (pc[w] = "finish" /\ CleanExit(w) /\ pc'[w] = "returned")
                => result'[w] = "nil"
          /\ (pc[w] = "returned" /\ CleanExit(w) /\ pc'[w] = "idle")
                => LET h == HostOf(w) IN
                   /\ failures'[h] = 0
                   /\ ~waitingFor'[h]
                   /\ h \in queue' => h \in dirty]_vars

\* C28 amended: after a clean exit of the follow command Reconcile returns
\* nil; the controller then forgets the host's failures and arms no delayed
\* requeue, a delay armed by an earlier failure of the host staying pending,
\* and the host is queued at once exactly when it was marked dirty during
\* the attempt.
C28_CleanExitNoRequeue ==
    [][\A w \in Workers :
          /\ (pc[w] = "finish" /\ CleanExit(w) /\ pc'[w] = "returned")
                => result'[w] = "nil"
          /\ (pc[w] = "returned" /\ CleanExit(w) /\ pc'[w] = "idle")
                => LET h == HostOf(w) IN
                   /\ result[w] = "nil"
                   /\ failures'[h] = 0
                   /\ lastDelay'[h] = 0
                   /\ waitingFor' = waitingFor
                   /\ h \notin processing'
                   /\ h \in queue' <=> h \in dirty]_vars

\* C28 witness: Reconcile has returned nil after a clean exit of the follow
\* command while a requeue delay from an earlier failure of the host is
\* still pending.
C28_Witness ==
    \E w \in Workers :
        /\ pc[w] = "returned"
        /\ result[w] = "nil"
        /\ CleanExit(w)
        /\ waiter[w] = "done"
        /\ waitingFor[HostOf(w)]
        /\ failures[HostOf(w)] >= 1

\* C29: events for a host whose attempt is running are coalesced and kept.
\* While the queue accepts requests, every such event leaves the host marked
\* dirty and out of the queue, and an event for a host that is already dirty
\* changes nothing in the queue's bookkeeping, so N events weigh as one. When
\* the running attempt has returned, the dirty host is queued, and it is
\* queued by no other step. The attempt that takes it starts only when no
\* worker holds the host, it clears the mark, and its Reconcile goes on to
\* dial only if the Machine has an address at that very step.
C29_EventsCoalesced ==
    [][/\ \A h \in Hosts, m \in MachineStates :
            (MachineEvent(h, m) /\ h \in processing /\ ~shuttingDown)
              => /\ h \in dirty'
                 /\ h \notin queue'
                 /\ processing' = processing
                 /\ h \in dirty => UNCHANGED schedVars
       /\ \A h \in Hosts :
            (h \in processing /\ h \in dirty)
              => (h \in queue' <=> h \notin processing')
       /\ \A w \in Workers :
            (pc[w] = "idle" /\ pc'[w] = "reconcile")
              => /\ item'[w] \in queue
                 /\ item'[w] \notin processing
                 /\ \A v \in Workers : item[v] # item'[w]
                 /\ item'[w] \notin dirty'
                 /\ item'[w] \notin queue'
       /\ \A w \in Workers :
            (pc[w] = "reconcile" /\ pc'[w] = "dial")
              => /\ machine[HostOf(w)] = "addr"
                 /\ machine' = machine]_vars

\* C29 witness: the attempt began with an address and is following the
\* journal; an event has since taken the address away, the host is marked
\* dirty and waits outside the queue for the attempt to return.
C29_Witness ==
    \E w \in Workers :
        /\ pc[w] = "select"
        /\ ~cancelled
        /\ ~shuttingDown
        /\ machine[HostOf(w)] = "noaddr"
        /\ HostOf(w) \in dirty
        /\ HostOf(w) \in processing
        /\ HostOf(w) \notin queue

====
